---------------------------- MODULE Spec2Model ----------------------------
(***************************************************************************)
(* Outrigger-canoe stability simulator (src/app.py).                       *)
(*                                                                         *)
(* The script is a Streamlit page: every change of a sidebar widget        *)
(* re-runs the whole script, which reads the widget values and recomputes  *)
(* the coefficients, forces, torques and the safety verdict.  The state is *)
(* the widget values plus the values the last run of the script computed.  *)
(*                                                                         *)
(* Real numbers are exact signed decimals (sign, base-10^4 limbs,          *)
(* exponent).  math.sin / math.cos of math.radians(angle) are the values   *)
(* libm returns for the integer angles 0..90, written out to 20 decimal    *)
(* places, so that cos(radians(90)) is 6.123e-17 and not 0.  Rounding of   *)
(* the individual float multiplications is not modelled.                   *)
(***************************************************************************)
EXTENDS Integers, Sequences, FiniteSets, TLC

VARIABLES sail_shape, sail_material_name, sail_area, wind_speed, angle_attack,
          hull_label, hull_len, outrigger_dist, float_vol, result, error

vars == <<sail_shape, sail_material_name, sail_area, wind_speed, angle_attack,
          hull_label, hull_len, outrigger_dist, float_vol, result, error>>

----------------------------------------------------------------------------
(* Exact decimal arithmetic.  A number is [s, m, e]: sign s in {-1,0,1},   *)
(* magnitude m as little-endian limbs in base 10^4 without high zero       *)
(* limbs, and value s * m * Base^(-e).  The form is canonical (no low zero *)
(* limb while e > 0), so equal numbers are equal records.                  *)

Base == 10^4

Zero == [s |-> 0, m |-> <<>>, e |-> 0]

RECURSIVE TrimHigh(_)
TrimHigh(m) ==
    IF m = <<>> THEN <<>>
    ELSE IF m[Len(m)] = 0 THEN TrimHigh(SubSeq(m, 1, Len(m) - 1))
    ELSE m

RECURSIVE StripLow(_, _, _)
StripLow(s, m, e) ==
    IF e > 0 /\ Head(m) = 0 THEN StripLow(s, Tail(m), e - 1)
    ELSE [s |-> s, m |-> m, e |-> e]

Canon(s, m, e) ==
    LET t == TrimHigh(m)
    IN  IF t = <<>> \/ s = 0 THEN Zero ELSE StripLow(s, t, e)

RECURSIVE NatLimbs(_)
NatLimbs(k) == IF k = 0 THEN <<>> ELSE <<k % Base>> \o NatLimbs(k \div Base)

Abs(n) == IF n < 0 THEN -n ELSE n
Sgn(n) == IF n < 0 THEN -1 ELSE IF n = 0 THEN 0 ELSE 1

(* The decimal literal n * 10^(-d), e.g. R(1225, 3) is 1.225.              *)
R(n, d) ==
    LET e == (d + 3) \div 4
    IN  Canon(Sgn(n), NatLimbs(Abs(n) * 10^(4 * e - d)), e)

RECURSIVE MulLimb(_, _, _)
MulLimb(a, d, c) ==
    IF a = <<>> THEN (IF c = 0 THEN <<>> ELSE <<c>>)
    ELSE LET p == Head(a) * d + c
         IN  <<p % Base>> \o MulLimb(Tail(a), d, p \div Base)

RECURSIVE AddMag(_, _, _)
AddMag(a, b, c) ==
    IF a = <<>> /\ b = <<>> THEN (IF c = 0 THEN <<>> ELSE <<c>>)
    ELSE LET x == IF a = <<>> THEN 0 ELSE Head(a)
             y == IF b = <<>> THEN 0 ELSE Head(b)
             t == x + y + c
         IN  <<t % Base>> \o AddMag(IF a = <<>> THEN <<>> ELSE Tail(a),
                                    IF b = <<>> THEN <<>> ELSE Tail(b),
                                    t \div Base)

RECURSIVE MulMag(_, _)
MulMag(a, b) ==
    IF b = <<>> \/ a = <<>> THEN <<>>
    ELSE AddMag(MulLimb(a, Head(b), 0), <<0>> \o MulMag(a, Tail(b)), 0)

Mul(x, y) == Canon(x.s * y.s, MulMag(x.m, y.m), x.e + y.e)

Neg(x) == [x EXCEPT !.s = -x.s]

(* x / y for a divisor y that is a whole number dividing Base (the only    *)
(* division of the script is by 2.0): the quotient is an exact decimal.    *)
Div(x, y) == Mul(x, Canon(y.s, <<Base \div y.m[1]>>, 1))

Zeros(k) == [i \in 1..k |-> 0]

RECURSIVE CmpFrom(_, _, _)
CmpFrom(a, b, i) ==
    IF i = 0 THEN 0
    ELSE IF a[i] < b[i] THEN -1
    ELSE IF a[i] > b[i] THEN 1
    ELSE CmpFrom(a, b, i - 1)

CmpMag(a, b) ==
    IF Len(a) < Len(b) THEN -1
    ELSE IF Len(a) > Len(b) THEN 1
    ELSE CmpFrom(a, b, Len(a))

(* -1, 0 or 1 as x < y, x = y or x > y.                                    *)
Cmp(x, y) ==
    IF x.s # y.s THEN (IF x.s < y.s THEN -1 ELSE 1)
    ELSE IF x.s = 0 THEN 0
    ELSE LET k == IF x.e > y.e THEN x.e ELSE y.e
         IN  x.s * CmpMag(Zeros(k - x.e) \o x.m, Zeros(k - y.e) \o y.m)

Lt(x, y) == Cmp(x, y) = -1
Gt(x, y) == Cmp(x, y) = 1
Ge(x, y) == Cmp(x, y) >= 0

----------------------------------------------------------------------------
(* math.sin(math.radians(a)) and math.cos(math.radians(a)) for the integer *)
(* angles of the slider: the doubles libm returns, to 20 decimal places,   *)
(* as six limbs with exponent 5.                                           *)

SinTable ==
         0 :> <<0, 0, 0, 0, 0, 0>>
      @@ 1 :> <<1165, 2835, 6437, 5240, 174, 0>>
      @@ 2 :> <<6919, 5009, 6702, 9949, 348, 0>>
      @@ 3 :> <<3463, 9438, 6242, 3595, 523, 0>>
      @@ 4 :> <<243, 1253, 3744, 5647, 697, 0>>
      @@ 5 :> <<6586, 6581, 2747, 5574, 871, 0>>
      @@ 6 :> <<7084, 6534, 3267, 2846, 1045, 0>>
      @@ 7 :> <<7610, 1474, 3405, 6934, 1218, 0>>
      @@ 8 :> <<3784, 654, 960, 7310, 1391, 0>>
      @@ 9 :> <<6895, 2308, 5040, 3446, 1564, 0>>
      @@ 10 :> <<3118, 9303, 7666, 4817, 1736, 0>>
      @@ 11 :> <<435, 5448, 5376, 899, 1908, 0>>
      @@ 12 :> <<4257, 7593, 817, 1169, 2079, 0>>
      @@ 13 :> <<342, 8650, 4343, 5105, 2249, 0>>
      @@ 14 :> <<3004, 6677, 5599, 2189, 2419, 0>>
      @@ 15 :> <<3947, 5207, 5102, 1904, 2588, 0>>
      @@ 16 :> <<6332, 9991, 5816, 3735, 2756, 0>>
      @@ 17 :> <<6935, 7367, 4722, 7170, 2923, 0>>
      @@ 18 :> <<9575, 9473, 4374, 1699, 3090, 0>>
      @@ 19 :> <<9987, 1566, 4457, 6815, 3255, 0>>
      @@ 20 :> <<1290, 6687, 3325, 2014, 3420, 0>>
      @@ 21 :> <<6835, 3002, 9545, 6794, 3583, 0>>
      @@ 22 :> <<1476, 9120, 3415, 659, 3746, 0>>
      @@ 23 :> <<7127, 2737, 8489, 3112, 3907, 0>>
      @@ 24 :> <<826, 8002, 3075, 3664, 4067, 0>>
      @@ 25 :> <<4128, 6994, 1740, 1826, 4226, 0>>
      @@ 26 :> <<383, 774, 6789, 7114, 4383, 0>>
      @@ 27 :> <<4896, 5467, 9739, 9049, 4539, 0>>
      @@ 28 :> <<580, 8908, 2785, 7156, 4694, 0>>
      @@ 29 :> <<5853, 3370, 246, 962, 4848, 0>>
      @@ 30 :> <<4448, 9999, 9999, 9999, 4999, 0>>
      @@ 31 :> <<5553, 541, 4910, 3807, 5150, 0>>
      @@ 32 :> <<80, 2049, 4233, 1926, 5299, 0>>
      @@ 33 :> <<8426, 270, 5015, 3903, 5446, 0>>
      @@ 34 :> <<483, 7469, 3470, 9290, 5591, 0>>
      @@ 35 :> <<4840, 460, 6351, 7643, 5735, 0>>
      @@ 36 :> <<3710, 4731, 2292, 8525, 5877, 0>>
      @@ 37 :> <<6736, 482, 3152, 1502, 6018, 0>>
      @@ 38 :> <<9170, 6582, 5325, 6147, 6156, 0>>
      @@ 39 :> <<9097, 8373, 1049, 2039, 6293, 0>>
      @@ 40 :> <<5189, 5392, 9686, 8760, 6427, 0>>
      @@ 41 :> <<7583, 5072, 8990, 5902, 6560, 0>>
      @@ 42 :> <<3757, 8582, 6358, 3060, 6691, 0>>
      @@ 43 :> <<7653, 4984, 62, 9836, 6819, 0>>
      @@ 44 :> <<5410, 9972, 458, 5837, 6946, 0>>
      @@ 45 :> <<6171, 5474, 1186, 678, 7071, 0>>
      @@ 46 :> <<8083, 6510, 338, 3980, 7193, 0>>
      @@ 47 :> <<5983, 1704, 1619, 5370, 7313, 0>>
      @@ 48 :> <<4411, 3942, 5477, 4482, 7431, 0>>
      @@ 49 :> <<1404, 7720, 222, 958, 7547, 0>>
      @@ 50 :> <<1345, 9780, 3118, 4444, 7660, 0>>
      @@ 51 :> <<179, 9709, 1456, 4596, 7771, 0>>
      @@ 52 :> <<1419, 7220, 3606, 1075, 7880, 0>>
      @@ 53 :> <<2922, 2928, 47, 3551, 7986, 0>>
      @@ 54 :> <<5126, 9474, 4374, 1699, 8090, 0>>
      @@ 55 :> <<9855, 9917, 4288, 5204, 8191, 0>>
      @@ 56 :> <<3517, 417, 2555, 3757, 8290, 0>>
      @@ 57 :> <<5029, 4240, 7945, 7056, 8386, 0>>
      @@ 58 :> <<5677, 4259, 6156, 4809, 8480, 0>>
      @@ 59 :> <<3361, 1123, 702, 6730, 8571, 0>>
      @@ 60 :> <<9658, 4385, 3784, 2540, 8660, 0>>
      @@ 61 :> <<4118, 3957, 7139, 1970, 8746, 0>>
      @@ 62 :> <<7739, 9268, 2858, 4759, 8829, 0>>
      @@ 63 :> <<8778, 3677, 4188, 652, 8910, 0>>
      @@ 64 :> <<3761, 1670, 6299, 9404, 8987, 0>>
      @@ 65 :> <<3667, 6499, 7036, 778, 9063, 0>>
      @@ 66 :> <<6659, 6008, 7642, 4545, 9135, 0>>
      @@ 67 :> <<7471, 4403, 3452, 485, 9205, 0>>
      @@ 68 :> <<2428, 7874, 4566, 8385, 9271, 0>>
      @@ 69 :> <<4299, 2017, 6497, 8042, 9335, 0>>
      @@ 70 :> <<1688, 9083, 785, 9262, 9396, 0>>
      @@ 71 :> <<3513, 3167, 5599, 1857, 9455, 0>>
      @@ 72 :> <<3118, 1535, 6295, 5651, 9510, 0>>
      @@ 73 :> <<3550, 354, 5963, 475, 9563, 0>>
      @@ 74 :> <<9415, 3188, 5938, 6169, 9612, 0>>
      @@ 75 :> <<1221, 683, 6289, 2582, 9659, 0>>
      @@ 76 :> <<7294, 9964, 6275, 9572, 9702, 0>>
      @@ 77 :> <<4588, 2352, 4785, 7006, 9743, 0>>
      @@ 78 :> <<7781, 8055, 733, 4760, 9781, 0>>
      @@ 79 :> <<7571, 6639, 3447, 2718, 9816, 0>>
      @@ 80 :> <<2031, 2080, 3012, 775, 9848, 0>>
      @@ 81 :> <<7035, 1377, 595, 8834, 9876, 0>>
      @@ 82 :> <<6197, 5703, 8741, 6806, 9902, 0>>
      @@ 83 :> <<8312, 3219, 1641, 4615, 9925, 0>>
      @@ 84 :> <<8986, 2732, 5368, 2189, 9945, 0>>
      @@ 85 :> <<4519, 7455, 8091, 9469, 9961, 0>>
      @@ 86 :> <<9765, 8241, 259, 6405, 9975, 0>>
      @@ 87 :> <<3323, 5738, 4754, 2953, 9986, 0>>
      @@ 88 :> <<6211, 957, 7019, 9082, 9993, 0>>
      @@ 89 :> <<6957, 3912, 5156, 4769, 9998, 0>>
      @@ 90 :> <<0, 0, 0, 0, 0, 1>>

CosTable ==
         0 :> <<0, 0, 0, 0, 0, 1>>
      @@ 1 :> <<6957, 3912, 5156, 4769, 9998, 0>>
      @@ 2 :> <<6211, 957, 7019, 9082, 9993, 0>>
      @@ 3 :> <<3323, 5738, 4754, 2953, 9986, 0>>
      @@ 4 :> <<9765, 8241, 259, 6405, 9975, 0>>
      @@ 5 :> <<4519, 7455, 8091, 9469, 9961, 0>>
      @@ 6 :> <<8986, 2732, 5368, 2189, 9945, 0>>
      @@ 7 :> <<8312, 3219, 1641, 4615, 9925, 0>>
      @@ 8 :> <<6197, 5703, 8741, 6806, 9902, 0>>
      @@ 9 :> <<7035, 1377, 595, 8834, 9876, 0>>
      @@ 10 :> <<2031, 2080, 3012, 775, 9848, 0>>
      @@ 11 :> <<7571, 6639, 3447, 2718, 9816, 0>>
      @@ 12 :> <<8883, 8056, 733, 4760, 9781, 0>>
      @@ 13 :> <<4588, 2352, 4785, 7006, 9743, 0>>
      @@ 14 :> <<7294, 9964, 6275, 9572, 9702, 0>>
      @@ 15 :> <<1221, 683, 6289, 2582, 9659, 0>>
      @@ 16 :> <<9415, 3188, 5938, 6169, 9612, 0>>
      @@ 17 :> <<3550, 354, 5963, 475, 9563, 0>>
      @@ 18 :> <<3118, 1535, 6295, 5651, 9510, 0>>
      @@ 19 :> <<4615, 3168, 5599, 1857, 9455, 0>>
      @@ 20 :> <<2790, 9084, 785, 9262, 9396, 0>>
      @@ 21 :> <<4299, 2017, 6497, 8042, 9335, 0>>
      @@ 22 :> <<2428, 7874, 4566, 8385, 9271, 0>>
      @@ 23 :> <<7471, 4403, 3452, 485, 9205, 0>>
      @@ 24 :> <<6659, 6008, 7642, 4545, 9135, 0>>
      @@ 25 :> <<3667, 6499, 7036, 778, 9063, 0>>
      @@ 26 :> <<3761, 1670, 6299, 9404, 8987, 0>>
      @@ 27 :> <<9880, 3678, 4188, 652, 8910, 0>>
      @@ 28 :> <<8841, 9269, 2858, 4759, 8829, 0>>
      @@ 29 :> <<4118, 3957, 7139, 1970, 8746, 0>>
      @@ 30 :> <<761, 4387, 3784, 2540, 8660, 0>>
      @@ 31 :> <<3361, 1123, 702, 6730, 8571, 0>>
      @@ 32 :> <<5677, 4259, 6156, 4809, 8480, 0>>
      @@ 33 :> <<5029, 4240, 7945, 7056, 8386, 0>>
      @@ 34 :> <<2415, 416, 2555, 3757, 8290, 0>>
      @@ 35 :> <<9855, 9917, 4288, 5204, 8191, 0>>
      @@ 36 :> <<5126, 9474, 4374, 1699, 8090, 0>>
      @@ 37 :> <<2922, 2928, 47, 3551, 7986, 0>>
      @@ 38 :> <<317, 7219, 3606, 1075, 7880, 0>>
      @@ 39 :> <<179, 9709, 1456, 4596, 7771, 0>>
      @@ 40 :> <<1345, 9780, 3118, 4444, 7660, 0>>
      @@ 41 :> <<1404, 7720, 222, 958, 7547, 0>>
      @@ 42 :> <<4411, 3942, 5477, 4482, 7431, 0>>
      @@ 43 :> <<5983, 1704, 1619, 5370, 7313, 0>>
      @@ 44 :> <<9185, 6511, 338, 3980, 7193, 0>>
      @@ 45 :> <<7273, 5475, 1186, 678, 7071, 0>>
      @@ 46 :> <<5410, 9972, 458, 5837, 6946, 0>>
      @@ 47 :> <<7653, 4984, 62, 9836, 6819, 0>>
      @@ 48 :> <<3757, 8582, 6358, 3060, 6691, 0>>
      @@ 49 :> <<7583, 5072, 8990, 5902, 6560, 0>>
      @@ 50 :> <<6291, 5393, 9686, 8760, 6427, 0>>
      @@ 51 :> <<199, 8375, 1049, 2039, 6293, 0>>
      @@ 52 :> <<9170, 6582, 5325, 6147, 6156, 0>>
      @@ 53 :> <<7838, 483, 3152, 1502, 6018, 0>>
      @@ 54 :> <<3710, 4731, 2292, 8525, 5877, 0>>
      @@ 55 :> <<5942, 461, 6351, 7643, 5735, 0>>
      @@ 56 :> <<9381, 7467, 3470, 9290, 5591, 0>>
      @@ 57 :> <<8426, 270, 5015, 3903, 5446, 0>>
      @@ 58 :> <<80, 2049, 4233, 1926, 5299, 0>>
      @@ 59 :> <<5553, 541, 4910, 3807, 5150, 0>>
      @@ 60 :> <<1102, 1, 0, 0, 5000, 0>>
      @@ 61 :> <<1404, 3371, 246, 962, 4848, 0>>
      @@ 62 :> <<6131, 8908, 2785, 7156, 4694, 0>>
      @@ 63 :> <<448, 5468, 9739, 9049, 4539, 0>>
      @@ 64 :> <<5934, 774, 6789, 7114, 4383, 0>>
      @@ 65 :> <<4128, 6994, 1740, 1826, 4226, 0>>
      @@ 66 :> <<826, 8002, 3075, 3664, 4067, 0>>
      @@ 67 :> <<1576, 2737, 8489, 3112, 3907, 0>>
      @@ 68 :> <<5925, 9119, 3415, 659, 3746, 0>>
      @@ 69 :> <<7937, 3003, 9545, 6794, 3583, 0>>
      @@ 70 :> <<2393, 6688, 3325, 2014, 3420, 0>>
      @@ 71 :> <<5538, 1567, 4457, 6815, 3255, 0>>
      @@ 72 :> <<5126, 9474, 4374, 1699, 3090, 0>>
      @@ 73 :> <<6935, 7367, 4722, 7170, 2923, 0>>
      @@ 74 :> <<6332, 9991, 5816, 3735, 2756, 0>>
      @@ 75 :> <<3947, 5207, 5102, 1904, 2588, 0>>
      @@ 76 :> <<7453, 6676, 5599, 2189, 2419, 0>>
      @@ 77 :> <<2015, 8649, 4343, 5105, 2249, 0>>
      @@ 78 :> <<5359, 7594, 817, 1169, 2079, 0>>
      @@ 79 :> <<1537, 5449, 5376, 899, 1908, 0>>
      @@ 80 :> <<1445, 9304, 7666, 4817, 1736, 0>>
      @@ 81 :> <<2447, 2309, 5040, 3446, 1564, 0>>
      @@ 82 :> <<6560, 654, 960, 7310, 1391, 0>>
      @@ 83 :> <<8997, 1474, 3405, 6934, 1218, 0>>
      @@ 84 :> <<5696, 6534, 3267, 2846, 1045, 0>>
      @@ 85 :> <<3811, 6581, 2747, 5574, 871, 0>>
      @@ 86 :> <<3304, 1252, 3744, 5647, 697, 0>>
      @@ 87 :> <<6647, 9439, 6242, 3595, 523, 0>>
      @@ 88 :> <<8021, 5010, 6702, 9949, 348, 0>>
      @@ 89 :> <<9838, 2835, 6437, 5240, 174, 0>>
      @@ 90 :> <<6123, 0, 0, 0, 0, 0>>

sin_radians(a) == Canon(1, SinTable[a], 5)
cos_radians(a) == Canon(1, CosTable[a], 5)

----------------------------------------------------------------------------
(* Strings are sequences of Unicode code points; `k in s` of Python is     *)
(* substring search.                                                       *)

In(k, s) == \E i \in 0..(Len(s) - Len(k)) : SubSeq(s, i + 1, i + Len(k)) = k

(* "倒三角形 (南島蟹爪帆)", "正方形 (古歐洲帆)", "長方形 (高瘦帆)", "直角三角形 (現代帆)" *)
ShapeOptions ==
    << <<20498, 19977, 35282, 24418, 32, 40, 21335, 23798, 34809, 29226, 24070, 41>>,
       <<27491, 26041, 24418, 32, 40, 21476, 27472, 27954, 24070, 41>>,
       <<38263, 26041, 24418, 32, 40, 39640, 30246, 24070, 41>>,
       <<30452, 35282, 19977, 35282, 24418, 32, 40, 29694, 20195, 24070, 41>> >>

(* "林投葉編織 (透氣/古法)", "棉布帆 (傳統)", "現代尼龍帆 (不透氣/高效)" *)
MaterialOptions ==
    << <<26519, 25237, 33865, 32232, 32340, 32, 40, 36879, 27683, 47, 21476, 27861, 41>>,
       <<26825, 24067, 24070, 32, 40, 20659, 32113, 41>>,
       <<29694, 20195, 23612, 40845, 24070, 32, 40, 19981, 36879, 27683, 47, 39640, 25928, 41>> >>

(* The keywords of the two if-chains: "林投葉", "棉布"; "倒三角形", "正方形", "長方形". *)
KwPandanus         == <<26519, 25237, 33865>>
KwCotton           == <<26825, 24067>>
KwInvertedTriangle == <<20498, 19977, 35282, 24418>>
KwSquare           == <<27491, 26041, 24418>>
KwRectangle        == <<38263, 26041, 24418>>
(* "三角形": the first keyword with its first character dropped.            *)
KwTriangle         == <<19977, 35282, 24418>>

(* The hull materials, by the density their label maps to.                 *)
hull_options ==
    ( <<36629, 26408, 47, 24052, 29246, 34217, 26408, 32, 40, 23494, 24230, 32, 49, 53, 48, 41>> :> 150
   @@ <<21488, 28771, 26441, 26408, 32, 40, 23494, 24230, 32, 52, 53, 48, 41>> :> 450
   @@ <<27167, 26408, 32, 40, 23494, 24230, 32, 53, 53, 48, 41>> :> 550
   @@ <<31481, 23376, 35079, 21512, 26448, 32, 40, 23494, 24230, 32, 54, 48, 48, 41>> :> 600
   @@ <<29694, 20195, 29627, 32406, 32, 40, 23494, 24230, 32, 49, 53, 48, 48, 41>> :> 1500 )

(* "輕木/巴爾薩木 (密度 150)", the first key, and "現代玻纖 (密度 1500)", the last. *)
FirstHullLabel ==
    <<36629, 26408, 47, 24052, 29246, 34217, 26408, 32, 40, 23494, 24230, 32, 49, 53, 48, 41>>
LastHullLabel ==
    <<29694, 20195, 29627, 32406, 32, 40, 23494, 24230, 32, 49, 53, 48, 48, 41>>

hull_density(label) == hull_options[label]

----------------------------------------------------------------------------
(* Physics engine.                                                         *)

AIR_DENSITY   == R(1225, 3)
WATER_DENSITY == 1000
G             == R(98, 1)

material_efficiency(name) ==
    IF In(KwPandanus, name) THEN R(85, 2)
    ELSE IF In(KwCotton, name) THEN R(10, 1)
    ELSE R(115, 2)

base_width_approx == R(20, 1)

height_approx(w) == Div(w.sail_area, base_width_approx)

Coeffs(l, f, d) == [lever_arm_coeff |-> l, shape_lift_eff |-> f, shape_drag_coeff |-> d]

shape_coeffs_kw_triangle(shape) ==
    IF In(KwTriangle, shape) THEN Coeffs(R(4, 1), R(12, 1), R(8, 1))
    ELSE IF In(KwSquare, shape) THEN Coeffs(R(5, 1), R(10, 1), R(10, 1))
    ELSE IF In(KwRectangle, shape) THEN Coeffs(R(6, 1), R(9, 1), R(11, 1))
    ELSE Coeffs(R(45, 2), R(13, 1), R(6, 1))

(* The if-chain that sets lever_arm_coeff, shape_lift_eff and              *)
(* shape_drag_coeff together.                                              *)
shape_coeffs(shape) ==
    IF In(KwInvertedTriangle, shape) THEN Coeffs(R(4, 1), R(12, 1), R(8, 1))
    ELSE IF In(KwSquare, shape) THEN Coeffs(R(5, 1), R(10, 1), R(10, 1))
    ELSE IF In(KwRectangle, shape) THEN Coeffs(R(6, 1), R(9, 1), R(11, 1))
    ELSE Coeffs(R(45, 2), R(13, 1), R(6, 1))

coe_height_full_area(w, lever) == Mul(w.sail_area, lever)

coe_height(w, lever) == Mul(height_approx(w), lever)

raw_wind_force_linear(w, eff) ==
    Mul(Mul(Mul(Mul(R(5, 1), AIR_DENSITY), w.sail_area), w.wind_speed), eff)

raw_wind_force(w, eff) ==
    Mul(Mul(Mul(Mul(R(5, 1), AIR_DENSITY), w.sail_area),
            Mul(w.wind_speed, w.wind_speed)), eff)

force_forward(w, raw, lift) == Mul(Mul(raw, sin_radians(w.angle_attack)), lift)

force_side_signed(w, raw, drag) ==
    Neg(Mul(Mul(raw, cos_radians(w.angle_attack)), drag))

force_side(w, raw, drag) == Mul(Mul(raw, cos_radians(w.angle_attack)), drag)

torque_heeling(side, coe) == Mul(side, coe)

buoyancy_force(w) == Mul(Mul(w.float_vol, R(WATER_DENSITY, 0)), G)

torque_righting_hull_len(w, buoyancy) == Mul(buoyancy, w.hull_len)

torque_righting(w, buoyancy) == Mul(buoyancy, w.outrigger_dist)

is_safe_ge(righting, heeling) == Ge(righting, heeling)
is_safe_swapped(righting, heeling) == Gt(heeling, righting)

is_safe(righting, heeling) == Gt(righting, heeling)

(* One run of the script on the widget values w.                           *)
Script(w) ==
    LET eff    == material_efficiency(w.sail_material_name)
        sc     == shape_coeffs(w.sail_shape)
        coe    == coe_height(w, sc.lever_arm_coeff)
        raw    == raw_wind_force(w, eff)
        fwd    == force_forward(w, raw, sc.shape_lift_eff)
        side   == force_side(w, raw, sc.shape_drag_coeff)
        heel   == torque_heeling(side, coe)
        buoy   == buoyancy_force(w)
        right  == torque_righting(w, buoy)
    IN  [material_efficiency |-> eff,
         lever_arm_coeff     |-> sc.lever_arm_coeff,
         shape_lift_eff      |-> sc.shape_lift_eff,
         shape_drag_coeff    |-> sc.shape_drag_coeff,
         coe_height          |-> coe,
         raw_wind_force      |-> raw,
         force_forward       |-> fwd,
         force_side          |-> side,
         torque_heeling      |-> heel,
         buoyancy_force      |-> buoy,
         torque_righting     |-> right,
         is_safe             |-> is_safe(right, heel)]

----------------------------------------------------------------------------
(* The sidebar.  Slider and number-input values are drawn from samples of  *)
(* the widgets' ranges, the hull material from three of the five keys.  A  *)
(* widget re-runs the script when its value changes.                       *)

MaxLowWind   == 0
MaxNearRight == 0

Range(f) == {f[i] : i \in DOMAIN f}

SailAreas      == {R(40, 1), R(50, 1), R(100, 1)}
WindSpeeds     == {R(5 * k, 1) : k \in 0..MaxLowWind} \cup {R(100, 1), R(200, 1)}
Angles         == {0, 60} \cup {90 - k : k \in 0..MaxNearRight}
HullLabels     == {l \in DOMAIN hull_options : hull_options[l] \in {150, 550, 1500}}
HullLens       == {R(30, 1), R(50, 1)}
OutriggerDists == {R(10, 1), R(20, 1)}
FloatVols      == {R(1, 2), R(5, 2)}

Widgets ==
    [sail_shape |-> sail_shape, sail_material_name |-> sail_material_name,
     sail_area |-> sail_area, wind_speed |-> wind_speed,
     angle_attack |-> angle_attack, hull_label |-> hull_label,
     hull_density |-> hull_density(hull_label), hull_len |-> hull_len,
     outrigger_dist |-> outrigger_dist, float_vol |-> float_vol]

(* The first run, with every widget at its default.                        *)
Init ==
    /\ sail_shape = ShapeOptions[1]
    /\ sail_material_name = MaterialOptions[1]
    /\ sail_area = R(50, 1)
    /\ wind_speed = R(100, 1)
    /\ angle_attack = 60
    /\ hull_label = FirstHullLabel
    /\ hull_len = R(50, 1)
    /\ outrigger_dist = R(20, 1)
    /\ float_vol = R(5, 2)
    /\ result = Script(Widgets)
    /\ error = "none"

SelectShape ==
    \E v \in Range(ShapeOptions) :
        /\ v # sail_shape
        /\ sail_shape' = v
        /\ result' = Script([Widgets EXCEPT !.sail_shape = v])
        /\ UNCHANGED <<sail_material_name, sail_area, wind_speed, angle_attack,
                       hull_label, hull_len, outrigger_dist, float_vol, error>>

SelectMaterial ==
    \E v \in Range(MaterialOptions) :
        /\ v # sail_material_name
        /\ sail_material_name' = v
        /\ result' = Script([Widgets EXCEPT !.sail_material_name = v])
        /\ UNCHANGED <<sail_shape, sail_area, wind_speed, angle_attack,
                       hull_label, hull_len, outrigger_dist, float_vol, error>>

SlideSailArea ==
    \E v \in SailAreas :
        /\ v # sail_area
        /\ sail_area' = v
        /\ result' = Script([Widgets EXCEPT !.sail_area = v])
        /\ UNCHANGED <<sail_shape, sail_material_name, wind_speed, angle_attack,
                       hull_label, hull_len, outrigger_dist, float_vol, error>>

SlideWindSpeed ==
    \E v \in WindSpeeds :
        /\ v # wind_speed
        /\ wind_speed' = v
        /\ result' = Script([Widgets EXCEPT !.wind_speed = v])
        /\ UNCHANGED <<sail_shape, sail_material_name, sail_area, angle_attack,
                       hull_label, hull_len, outrigger_dist, float_vol, error>>

SlideAngle ==
    \E v \in Angles :
        /\ v # angle_attack
        /\ angle_attack' = v
        /\ result' = Script([Widgets EXCEPT !.angle_attack = v])
        /\ UNCHANGED <<sail_shape, sail_material_name, sail_area, wind_speed,
                       hull_label, hull_len, outrigger_dist, float_vol, error>>

SelectHull ==
    \E v \in HullLabels :
        /\ v # hull_label
        /\ hull_label' = v
        /\ result' = Script([Widgets EXCEPT !.hull_label = v,
                                            !.hull_density = hull_density(v)])
        /\ UNCHANGED <<sail_shape, sail_material_name, sail_area, wind_speed,
                       angle_attack, hull_len, outrigger_dist, float_vol, error>>

EnterHullLen ==
    \E v \in HullLens :
        /\ v # hull_len
        /\ hull_len' = v
        /\ result' = Script([Widgets EXCEPT !.hull_len = v])
        /\ UNCHANGED <<sail_shape, sail_material_name, sail_area, wind_speed,
                       angle_attack, hull_label, outrigger_dist, float_vol, error>>

SlideOutrigger ==
    \E v \in OutriggerDists :
        /\ v # outrigger_dist
        /\ outrigger_dist' = v
        /\ result' = Script([Widgets EXCEPT !.outrigger_dist = v])
        /\ UNCHANGED <<sail_shape, sail_material_name, sail_area, wind_speed,
                       angle_attack, hull_label, hull_len, float_vol, error>>

EnterFloatVol ==
    \E v \in FloatVols :
        /\ v # float_vol
        /\ float_vol' = v
        /\ result' = Script([Widgets EXCEPT !.float_vol = v])
        /\ UNCHANGED <<sail_shape, sail_material_name, sail_area, wind_speed,
                       angle_attack, hull_label, hull_len, outrigger_dist, error>>

Next ==
    \/ SelectShape \/ SelectMaterial \/ SlideSailArea \/ SlideWindSpeed
    \/ SlideAngle \/ SelectHull \/ EnterHullLen \/ SlideOutrigger
    \/ EnterFloatVol

Spec == Init /\ [][Next]_vars

----------------------------------------------------------------------------
(* The two if-chains on a selection that is not one of the options: the    *)
(* script run on a shape or material text that no selectbox offers.        *)

(* "圓形 (試驗帆)", "三角形" *)
OtherShapes == { <<22291, 24418, 32, 40, 35430, 39511, 24070, 41>>,
                 <<19977, 35282, 24418>> }
(* "絲綢帆" *)
OtherMaterials == { <<32114, 32162, 24070>> }

EnterShapeText ==
    \E v \in Range(ShapeOptions) \cup OtherShapes :
        /\ v # sail_shape
        /\ sail_shape' = v
        /\ result' = Script([Widgets EXCEPT !.sail_shape = v])
        /\ UNCHANGED <<sail_material_name, sail_area, wind_speed, angle_attack,
                       hull_label, hull_len, outrigger_dist, float_vol, error>>

EnterMaterialText ==
    \E v \in Range(MaterialOptions) \cup OtherMaterials :
        /\ v # sail_material_name
        /\ sail_material_name' = v
        /\ result' = Script([Widgets EXCEPT !.sail_material_name = v])
        /\ UNCHANGED <<sail_shape, sail_area, wind_speed, angle_attack,
                       hull_label, hull_len, outrigger_dist, float_vol, error>>

NextFreeform ==
    \/ EnterShapeText \/ EnterMaterialText
    \/ SlideSailArea \/ SlideWindSpeed \/ SlideAngle

SpecFreeform == Init /\ [][NextFreeform]_vars


----------------------------------------------------------------------------
(* Properties.                                                             *)

Cotton        == MaterialOptions[2]
Square        == ShapeOptions[2]
RightTriangle == ShapeOptions[4]

OthersThanWindFixed ==
    /\ sail_shape' = sail_shape
    /\ sail_material_name' = sail_material_name
    /\ sail_area' = sail_area
    /\ angle_attack' = angle_attack
    /\ outrigger_dist' = outrigger_dist
    /\ float_vol' = float_vol

(* C1: is_safe is true exactly when torque_righting is strictly greater    *)
(* than torque_heeling; when the two torques are equal, is_safe is false.  *)
C1_SafeIffRightingStrictlyGreater ==
    /\ result.is_safe <=> Lt(result.torque_heeling, result.torque_righting)
    /\ result.torque_heeling = result.torque_righting => ~result.is_safe

(* The tie: 4 m^2 square cotton sail, 20 m/s, 0 degrees against 0.05 m^3   *)
(* at 2 m: both torques are 980 N*m.                                       *)
C1_TieReached ==
    /\ sail_shape = Square /\ sail_material_name = Cotton
    /\ sail_area = R(40, 1) /\ wind_speed = R(200, 1) /\ angle_attack = 0
    /\ float_vol = R(5, 2) /\ outrigger_dist = R(20, 1)
    /\ result.torque_heeling = R(980, 0)
    /\ result.torque_righting = R(980, 0)
    /\ ~result.is_safe

(* The lookup tables of the specification, by option index.                *)
MaterialTable == <<R(85, 2), R(100, 2), R(115, 2)>>
ShapeTable ==
    << Coeffs(R(4, 1), R(12, 1), R(8, 1)),
       Coeffs(R(5, 1), R(10, 1), R(10, 1)),
       Coeffs(R(6, 1), R(9, 1), R(11, 1)),
       Coeffs(R(45, 2), R(13, 1), R(6, 1)) >>

(* C2: for each of the 3 material options and 4 shape options the keyword  *)
(* dispatch resolves exactly the coefficients of the lookup tables.        *)
C2_DispatchMatchesTables ==
    /\ \A i \in 1..3 :
          sail_material_name = MaterialOptions[i]
             => result.material_efficiency = MaterialTable[i]
    /\ \A i \in 1..4 :
          sail_shape = ShapeOptions[i]
             => Coeffs(result.lever_arm_coeff, result.shape_lift_eff,
                       result.shape_drag_coeff) = ShapeTable[i]

(* The last shape, whose label contains the tail of the first keyword, and *)
(* the last material, both resolved by the else branches.                  *)
C2_ElseBranchOptions ==
    /\ sail_shape = RightTriangle
    /\ sail_material_name = MaterialOptions[3]
    /\ result.lever_arm_coeff = R(45, 2)
    /\ result.shape_lift_eff = R(13, 1)
    /\ result.shape_drag_coeff = R(6, 1)
    /\ result.material_efficiency = R(115, 2)

C4_ZeroWind ==
    wind_speed = Zero =>
        /\ result.raw_wind_force = Zero
        /\ result.force_forward = Zero
        /\ result.force_side = Zero
        /\ result.torque_heeling = Zero
        /\ Gt(result.torque_righting, Zero)
        /\ result.is_safe

C4_ZeroWindReached ==
    /\ wind_speed = Zero /\ sail_area = R(100, 1) /\ angle_attack = 0
    /\ float_vol = R(1, 2) /\ outrigger_dist = R(10, 1)
    /\ result.torque_heeling = Zero
    /\ result.torque_righting = R(98, 0)
    /\ result.is_safe

(* C5: with angle_attack = 90 the side force and the heeling torque are 0, *)
(* force_forward is raw_wind_force * shape_lift_eff and is_safe is true.   *)
C5_RightAngleNoSideForce ==
    angle_attack = 90 =>
        /\ result.force_side = Zero
        /\ result.force_forward = Mul(result.raw_wind_force, result.shape_lift_eff)
        /\ result.torque_heeling = Zero
        /\ result.is_safe

(* C6: raw_wind_force, force_forward, force_side and torque_heeling are    *)
(* never negative.                                                         *)
C6_ForcesNonNegative ==
    /\ Ge(result.raw_wind_force, Zero)
    /\ Ge(result.force_forward, Zero)
    /\ Ge(result.force_side, Zero)
    /\ Ge(result.torque_heeling, Zero)

C6_PureDragReached ==
    /\ angle_attack = 0 /\ wind_speed = R(200, 1)
    /\ result.force_forward = Zero
    /\ Gt(result.force_side, Zero)
    /\ Gt(result.torque_heeling, Zero)

(* C7: with sail area and material fixed, a larger positive wind speed     *)
(* gives a strictly larger raw_wind_force, in the ratio of the squares of  *)
(* the wind speeds.                                                        *)
C7_RawForceIncreasesQuadratically ==
    [][ ( /\ sail_area' = sail_area
          /\ sail_material_name' = sail_material_name
          /\ Gt(wind_speed, Zero)
          /\ Lt(wind_speed, wind_speed') )
        => /\ Lt(result.raw_wind_force, result'.raw_wind_force)
           /\ Mul(result.raw_wind_force, Mul(wind_speed', wind_speed'))
                = Mul(result'.raw_wind_force, Mul(wind_speed, wind_speed)) ]_vars

(* 20 m/s on the 5 m^2 cotton sail: 1225 N, four times the 306.25 N of     *)
(* 10 m/s.                                                                 *)
C7_DoubledWindReached ==
    /\ sail_area = R(50, 1) /\ sail_material_name = Cotton
    /\ wind_speed = R(200, 1)
    /\ result.raw_wind_force = R(1225, 0)

(* C8: a change of the hull material or the hull length alone leaves every *)
(* computed value as it was.                                               *)
C8_HullHasNoInfluence ==
    [][ (OthersThanWindFixed /\ wind_speed' = wind_speed) => result' = result ]_vars

C8_HullChangedReached ==
    /\ hull_label = LastHullLabel /\ hull_density(hull_label) = 1500
    /\ hull_len = R(30, 1)
    /\ sail_shape = ShapeOptions[1] /\ sail_material_name = MaterialOptions[1]
    /\ sail_area = R(50, 1) /\ wind_speed = R(100, 1) /\ angle_attack = 60
    /\ float_vol = R(5, 2) /\ outrigger_dist = R(20, 1)
    /\ result.raw_wind_force = R(2603125, 4)
    /\ result.torque_righting = R(980, 0)

About(x, n, d) == Lt(R(n - 1, d), x) /\ Lt(x, R(n + 1, d))

Scenario1Input ==
    /\ sail_area = R(50, 1) /\ wind_speed = R(100, 1) /\ angle_attack = 60
    /\ sail_shape = ShapeOptions[1] /\ sail_material_name = Cotton
    /\ float_vol = R(5, 2) /\ outrigger_dist = R(20, 1)

Scenario1Result ==
    /\ result.material_efficiency = R(10, 1)
    /\ result.raw_wind_force = R(30625, 2)
    /\ result.coe_height = R(10, 1)
    /\ About(result.force_forward, 3182, 1)
    /\ About(result.force_side, 1225, 1)
    /\ About(result.torque_heeling, 1225, 1)
    /\ result.torque_heeling = Mul(result.force_side, result.coe_height)
    /\ result.buoyancy_force = R(490, 0)
    /\ result.torque_righting = R(980, 0)
    /\ result.is_safe

(* The defaults of the seven widgets the scenario sets.                    *)
AtWidgetDefaults ==
    /\ sail_shape = ShapeOptions[1]
    /\ sail_material_name = MaterialOptions[1]
    /\ sail_area = R(50, 1) /\ wind_speed = R(100, 1) /\ angle_attack = 60
    /\ float_vol = R(5, 2) /\ outrigger_dist = R(20, 1)

C10_SafetyMonotone ==
    [][ /\ ( /\ OthersThanWindFixed /\ ~result.is_safe
             /\ Ge(wind_speed', wind_speed) ) => ~result'.is_safe
        /\ ( /\ sail_shape' = sail_shape
             /\ sail_material_name' = sail_material_name
             /\ sail_area' = sail_area
             /\ angle_attack' = angle_attack
             /\ wind_speed' = wind_speed
             /\ result.is_safe
             /\ Ge(float_vol', float_vol)
             /\ Ge(outrigger_dist', outrigger_dist) ) => result'.is_safe
        /\ (float_vol' = float_vol /\ outrigger_dist' = outrigger_dist)
              => result'.torque_righting = result.torque_righting
        /\ Ge(result.torque_righting, R(98, 0))
        /\ Ge(result'.torque_righting, R(98, 0)) ]_vars

(* Unsafe at 20 m/s on the smallest float at the shortest arm.             *)
C10_CapsizeAtMinimumRighting ==
    /\ ~result.is_safe
    /\ wind_speed = R(200, 1)
    /\ float_vol = R(1, 2) /\ outrigger_dist = R(10, 1)
    /\ result.torque_righting = R(98, 0)

============================================================================
